---- MODULE Spec2Model ----
(***************************************************************************)
(* Orthomosaic pipeline: main.py (processar_ortomosaico, processar_projeto)*)
(* and the handlers it calls (handlers.py), with the shared configuration  *)
(* of config.py.  Every pipeline run is a thread; a step of a run is one   *)
(* call of a handler (or, inside processar_imagens_webodm, the part before *)
(* and the part after the write of the shared options dictionary).         *)
(***************************************************************************)
EXTENDS Integers, Sequences, FiniteSets, TLC

\* ---------------------------------------------------------------- bounds
\* the most matching images a project holds in the bucket "uploads"
MaxImages == 2
\* the status checks of one wait that are counted one by one (a further one
\* is counted as "more"), and during which the connection to the node fails
MaxChecks == 3

\* The requests: request number r creates the record with id r and starts
\* the run r.  Two runs are enough for every interleaving of a pair.
Runs == {1, 2}
\* Project keys, in the order in which new keys are first requested
KeyOrder == <<"P1", "P2">>
Keys == {KeyOrder[i] : i \in DOMAIN KeyOrder}

\* Python's None
None == "None"

VARIABLES
    pedidos,          \* how many requests the clients are still to send
    pedido,           \* the request as it arrived: its X-API-Key, its body
    pc,               \* position of each run's thread in processar_projeto
    id_projeto,       \* project key of the run (None before the request)
    registro_id,      \* what criar_registro_requisicao returned for the request
    resposta,         \* HTTP status the request was answered with
    corpo,            \* the JSON body of the answer
    num_imagens,      \* contador returned by baixar_imagens_projeto
    listadas,         \* len(valid_files) of the listing of the run, until the
                      \* run goes on to the submission; -1 otherwise
    imagens,          \* how many image paths processar_imagens_webodm holds
    task,             \* the task create_task returned: the options it was sent
    status_wl,        \* status returned by aguardar_processamento
    visto,            \* last status the task reported to aguardar_processamento,
                      \* until the call that follows the wait
    caminho_metadados,\* TRUE when gerar_metadados returned a path
    metadados,        \* what gerar_metadados wrote for the run
    url_ortomosaico,  \* url returned by enviar_ortomosaico_para_bucket
    success_db,       \* return value of the terminal commit
    causa,            \* why the run aborts (None while it does not)
    retorno,          \* return value of processar_projeto
    entregue,         \* what the enviar_webhook of the run returned, until
                      \* processar_projeto returns
    chamadas,         \* per run: the handler calls made so far, in order
    requisicoes,      \* the table requisicoes: one record per registro_id
    temp,             \* TEMP_DIR: one directory per project key
    opcoes_name,      \* config.ortomosaico_preset["name"] (one dict per process)
    bucket,           \* bucket Ortomosaicos: per key, the objects published
    espera,           \* one call of aguardar_processamento, step by step
    ACTIVE_PRESET     \* config.ACTIVE_PRESET, read from the environment

vars == <<pedidos, pedido, pc, id_projeto, registro_id, resposta, corpo,
          num_imagens, listadas, imagens, task, status_wl, visto, caminho_metadados, metadados,
          url_ortomosaico, success_db, causa, retorno, entregue, chamadas,
          requisicoes, temp, opcoes_name, bucket, espera, ACTIVE_PRESET>>

\* everything but the wait that is followed step by step
pipeline == <<pedidos, pedido, pc, id_projeto, registro_id, resposta, corpo,
              num_imagens, listadas, imagens, task, status_wl, visto, caminho_metadados, metadados,
              url_ortomosaico, success_db, causa, retorno, entregue, chamadas,
              requisicoes, temp, opcoes_name, bucket, ACTIVE_PRESET>>

\* the requests and their answers
http == <<pedidos, pedido, registro_id, resposta, corpo>>

locais == <<num_imagens, listadas, imagens, task, status_wl,
            caminho_metadados, metadados, url_ortomosaico, success_db>>

\* ------------------------------------------------------------- constants
\* Statuses of a WebODM task (pyodm TaskStatus names), handlers.py:412
TaskStatus == {"QUEUED", "RUNNING", "FAILED", "COMPLETED", "CANCELED"}

\* What the database does with an update: it changes the row, it answers
\* without an error but no row was changed, or the call raises.
LedgerOutcomes == {"applied", "no_rows", "raise"}

\* settings.py:11-104: the presets, each told from the others by two of its
\* parameters, "min-num-features" and "depthmap-resolution"
ODM_QUALITY_PRESETS ==
    [padrao |-> [min_num_features |-> 10000, depthmap_resolution |-> 640],
     alta |-> [min_num_features |-> 16000, depthmap_resolution |-> 1024],
     robusta |-> [min_num_features |-> 8000, depthmap_resolution |-> 512],
     rapida |-> [min_num_features |-> 6000, depthmap_resolution |-> 384]]

\* no options: the task that was not created
SemParametros == [min_num_features |-> 0, depthmap_resolution |-> 0]

\* the values the environment may give ACTIVE_PRESET: the name of a preset,
\* or a name that settings.py does not define
ValoresDePreset == DOMAIN ODM_QUALITY_PRESETS \cup {"ultra"}

\* config.get_active_preset, config.py:63-70
get_active_preset(ativo) ==
    IF ativo \notin DOMAIN ODM_QUALITY_PRESETS
    THEN ODM_QUALITY_PRESETS["padrao"]
    ELSE ODM_QUALITY_PRESETS[ativo]

\* config.ortomosaico_preset, config.py:110: set once, when config is
\* imported; the keys processar_imagens_webodm adds leave these parameters
\* as they are
ortomosaico_preset == get_active_preset(ACTIVE_PRESET)

\* f"Projeto_{id_projeto}", handlers.py:362
NomeProjeto(k) == "Projeto_" \o k

\* handlers.py:261: the name of the mosaic in the bucket Ortomosaicos
nome_arquivo == "odm_ortophoto.tif"

\* handlers.py:262: f"{id_projeto}/{nome_arquivo}"
caminho_bucket(k) == k \o "/" \o nome_arquivo

\* get_public_url(caminho_bucket), handlers.py:273
UrlPublica(k) == "Ortomosaicos/" \o caminho_bucket(k)

\* handlers.py:559: the "Nome do Arquivo" written to metadados.txt
NomeNosMetadados == "odm_orthophoto.tif"

\* A project directory that does not exist: no image file (the image files
\* of a directory are counted, not named), no "resultados" subdirectory, no
\* odm_orthophoto.tif and no metadados.txt in it
SemDiretorio == [existe |-> FALSE, imagens |-> 0, resultados |-> FALSE,
                 ortomosaico |-> FALSE, metadados |-> FALSE]

\* config.get_project_temp_dir: os.makedirs(project_dir, exist_ok=True)
get_project_temp_dir(d) == [d EXCEPT !.existe = TRUE]


\* ------------------------------------------------------- table requisicoes
\* criar_registro_requisicao: the row inserted, handlers.py:46-54
NovoRegistro(k) == [id_projeto |-> k, status_orto |-> "Processando",
                    id_wl |-> None, url_ortomosaico |-> None]

\* atualizar_registro_requisicao: data = {} plus the fields that are not None
TemDados(id_wl, status_orto, url) ==
    id_wl # None \/ status_orto # None \/ url # None

\* an update that writes all three columns, None for a field not supplied
atualizar_linha_Inteira(rec, id_wl, status_orto, url) ==
    [id_projeto |-> rec.id_projeto, id_wl |-> id_wl,
     status_orto |-> status_orto, url_ortomosaico |-> url]

\* an update that leaves the status out when it writes the url
atualizar_linha_SoUrl(rec, id_wl, status_orto, url) ==
    [id_projeto |-> rec.id_projeto,
     id_wl |-> IF id_wl # None THEN id_wl ELSE rec.id_wl,
     status_orto |-> IF status_orto # None /\ url = None THEN status_orto
                     ELSE rec.status_orto,
     url_ortomosaico |-> IF url # None THEN url ELSE rec.url_ortomosaico]

\* the row after update(data)
atualizar_linha(rec, id_wl, status_orto, url) ==
    [id_projeto |-> rec.id_projeto,
     id_wl |-> IF id_wl # None THEN id_wl ELSE rec.id_wl,
     status_orto |-> IF status_orto # None THEN status_orto ELSE rec.status_orto,
     url_ortomosaico |-> IF url # None THEN url ELSE rec.url_ortomosaico]

\* the table after update(data).eq("id", id_registro).execute()
atualizar_tabela(tab, id_registro, id_wl, status_orto, url, outcome) ==
    IF TemDados(id_wl, status_orto, url) /\ outcome = "applied"
    THEN [i \in DOMAIN tab |->
            IF i = id_registro
            THEN atualizar_linha(tab[i], id_wl, status_orto, url)
            ELSE tab[i]]
    ELSE tab

\* the return value: True when data is not empty and execute() did not raise
atualizar_registro_requisicao(id_wl, status_orto, url, outcome) ==
    IF TemDados(id_wl, status_orto, url)
    THEN outcome # "raise"
    ELSE FALSE

\* ------------------------------------------------------------ the calls
Chamada(op, id_wl, status, url, mensagem) ==
    [op |-> op, id_wl |-> id_wl, status |-> status, url |-> url,
     mensagem |-> mensagem]

Registrar(r, c) == chamadas' = [chamadas EXCEPT ![r] = Append(@, c)]

\* ------------------------------------------------------- the abort exits
Causas == {"sem_imagens", "submit", "processamento", "resultados", "envio",
           "commit", "excecao"}

\* str(e) of the exception that reaches the except clause of processar_projeto
TextoExcecao == "makedirs"

\* status_orto the abort writes to the table, main.py:110,119,132,142,162,196
StatusErro(c, status) ==
    CASE c = "sem_imagens" -> "Erro: Nenhuma imagem encontrada"
      [] c = "submit" -> "Erro: Falha ao iniciar processamento"
      [] c = "processamento" -> "Erro: " \o status
      [] c = "resultados" -> "Erro: Falha ao baixar resultados"
      [] c = "envio" -> "Erro: Falha ao enviar ortomosaico"
      [] c = "excecao" -> "Erro: " \o TextoExcecao
      [] OTHER -> None

\* mensagem of the error webhook, main.py:111,120,133,143,163,178,199
MensagemErro(c, status) ==
    CASE c = "sem_imagens" -> "Nenhuma imagem encontrada"
      [] c = "submit" -> "Falha ao iniciar processamento no WebODM"
      [] c = "processamento" -> "Processamento falhou: " \o status
      [] c = "resultados" -> "Falha ao baixar resultados"
      [] c = "envio" -> "Falha ao enviar ortomosaico para o bucket"
      [] c = "commit" -> "Falha ao atualizar registro no banco de dados"
      [] c = "excecao" -> TextoExcecao
      [] OTHER -> None

\* an abort that, after the failed commit, goes straight to the cleanup
InicioAbort_SemWebhook(c) == IF c = "commit" THEN "limpar" ELSE "err_ledger"

\* first call of an abort: the table update, except after the failed commit
InicioAbort(c) == IF c = "commit" THEN "err_webhook" ELSE "err_ledger"

\* an exception handler that returns without the cleanup
DepoisWebhookErro_SemLimpeza(c) ==
    IF c \in {"sem_imagens", "excecao"} THEN "fim" ELSE "limpar"

\* what follows the error webhook: the cleanup, except when no image was found
DepoisWebhookErro(c) == IF c = "sem_imagens" THEN "fim" ELSE "limpar"

Abortar(r, c) ==
    /\ causa' = [causa EXCEPT ![r] = c]
    /\ pc' = [pc EXCEPT ![r] = InicioAbort(c)]


\* ----------------------------------------------------------------- Init
\* the server before the first request: no run, no directory, no object
InitRuns ==
    /\ pc = [r \in Runs |-> "idle"]
    /\ id_projeto = [r \in Runs |-> None]
    /\ registro_id = [r \in Runs |-> None]
    /\ resposta = [r \in Runs |-> None]
    /\ pedido = [r \in Runs |-> [api_key |-> None, dados |-> None]]
    /\ corpo = [r \in Runs |-> [mensagem |-> None, id_registro |-> None,
                                id_projeto |-> None, status |-> None,
                                erro |-> None]]
    /\ visto = [r \in Runs |-> None]
    /\ entregue = [r \in Runs |-> None]
    /\ num_imagens = [r \in Runs |-> 0]
    /\ listadas = [r \in Runs |-> -1]
    /\ imagens = [r \in Runs |-> 0]
    /\ task = [r \in Runs |-> [uuid |-> None, name |-> None,
                              parametros |-> SemParametros]]
    /\ status_wl = [r \in Runs |-> None]
    /\ caminho_metadados = [r \in Runs |-> FALSE]
    /\ metadados = [r \in Runs |-> [name |-> None, num_imagens |-> 0,
                                    arquivo |-> None, preset_nome |-> None]]
    /\ url_ortomosaico = [r \in Runs |-> None]
    /\ success_db = [r \in Runs |-> FALSE]
    /\ causa = [r \in Runs |-> None]
    /\ retorno = [r \in Runs |-> None]
    /\ chamadas = [r \in Runs |-> << >>]
    /\ temp = [k \in Keys |-> SemDiretorio]
    /\ opcoes_name = None
    /\ bucket = [k \in Keys |-> [ortomosaico |-> FALSE, metadados |-> FALSE]]

\* and a table without records
InitPipeline ==
    /\ InitRuns
    /\ requisicoes = [i \in {} |-> NovoRegistro(None)]

\* no call of aguardar_processamento is followed step by step
EsperaParada ==
    [pc |-> "idle", retry |-> 0, checks |-> 0, tempo |-> 0,
     visto |-> None, k |-> 0, ret |-> <<None, FALSE>>]

\* the clients send one request per run of Runs
Init ==
    /\ InitPipeline
    /\ pedidos = Cardinality(Runs)
    /\ espera = EsperaParada
    /\ ACTIVE_PRESET = "padrao"

\* the clients send a single request
InitUm ==
    /\ InitPipeline
    /\ pedidos = 1
    /\ espera = EsperaParada
    /\ ACTIVE_PRESET = "padrao"

\* the clients send a single request to a server started with any value of
\* ACTIVE_PRESET in its environment
InitPreset ==
    /\ InitPipeline
    /\ pedidos = 1
    /\ espera = EsperaParada
    /\ ACTIVE_PRESET \in ValoresDePreset

\* ------------------------------------------------- processar_ortomosaico
\* the project keys requested so far
ChavesPedidas == {id_projeto[q] : q \in Runs} \ {None}

\* a table that gives every record the same id
IdRegistro_Fixo(n) == "req-1"

\* the id the table gives the record of the n-th request
IdRegistro(n) == "req-" \o ToString(n)

\* What the insert of the record does: the row is inserted and its id is
\* read from the response; or the row is inserted and no id is found in the
\* response; or the call raises and no row is inserted.
Insercoes == {"id", "sem_id", "raise"}

\* criar_registro_requisicao, handlers.py:41-111: the id of the new record,
\* or None (lines 102, 106, 111)
criar_registro_requisicao(novo_id, insercao) ==
    IF insercao = "id" THEN novo_id ELSE None

\* a request that starts the thread whatever criar_registro_requisicao returned
ThreadIniciada_SemTeste(id) == TRUE

\* main.py:69-80: the thread is started unless registro_id is None
ThreadIniciada(id) == id # None

\* config.API_KEY, the key the server is configured with
API_KEY == "chave"

\* the X-API-Key header of a request: the configured key, another key, an
\* empty one, or no header
Cabecalhos == {API_KEY, "outra", "", None}

\* request.json: a body with id_projeto, one without it, or an empty one
Dados == {"com_id", "sem_id", "vazio"}

\* a decorator that lets every request through
require_apikey_SemTeste(api_key) == TRUE

\* main.py:25-29: "api_key and api_key == config.API_KEY"
require_apikey(api_key) == api_key \notin {None, ""} /\ api_key = API_KEY

\* main.py:50-54: "not dados" and "'id_projeto' not in dados" are answered 400
DadosValidos(dados) == dados = "com_id"

\* the body of an answer: the fields it does not have are None
CorpoVazio ==
    [mensagem |-> None, id_registro |-> None, id_projeto |-> None,
     status |-> None, erro |-> None]

\* an acknowledgment that leaves the record identifier out
Aceite_SemId(id, k) ==
    [CorpoVazio EXCEPT !.mensagem = "Processamento iniciado com sucesso",
                       !.id_projeto = k, !.status = "Em processamento"]

\* main.py:83-88: the body of the 202 answer
Aceite(id, k) ==
    [CorpoVazio EXCEPT !.mensagem = "Processamento iniciado com sucesso",
                       !.id_registro = id, !.id_projeto = k,
                       !.status = "Em processamento"]

\* main.py:29,51,54,70: the body of an answer that refuses the request
Recusa(codigo, dados) ==
    [CorpoVazio EXCEPT !.erro =
        CASE codigo = "401" -> "Acesso não autorizado"
          [] codigo = "400" /\ dados = "vazio" -> "Nenhum dado recebido"
          [] codigo = "400" ->
               "Campo obrigatório 'id_projeto' não encontrado"
          [] OTHER -> "Falha ao criar registro na tabela de requisições"]

\* A request.  The table numbers the records in the order of the requests,
\* and a key not yet requested is named by the next name of KeyOrder (keys
\* are only names).  A request without the configured key is answered 401 by
\* the decorator, one without id_projeto 400, and neither reaches
\* criar_registro_requisicao.  With a registro_id the thread of
\* processar_projeto is started and the answer is 202; without one the
\* answer is 500 and nothing is started.
processar_ortomosaico(r, k) ==
    /\ pedidos > 0
    /\ pedidos' = pedidos - 1
    /\ pc[r] = "idle"
    /\ \A q \in Runs : q < r => pc[q] # "idle"
    /\ k \in ChavesPedidas \cup {KeyOrder[Cardinality(ChavesPedidas) + 1]}
    /\ \E api_key \in Cabecalhos, dados \in Dados :
         /\ pedido' = [pedido EXCEPT ![r] =
                         [api_key |-> api_key, dados |-> dados]]
         /\ IF require_apikey(api_key) /\ DadosValidos(dados)
            THEN \E insercao \in Insercoes :
                   LET id == criar_registro_requisicao(IdRegistro(r), insercao)
                   IN
                   /\ requisicoes' =
                        IF insercao = "raise" THEN requisicoes
                        ELSE requisicoes @@ (IdRegistro(r) :> NovoRegistro(k))
                   /\ registro_id' = [registro_id EXCEPT ![r] = id]
                   /\ pc' = [pc EXCEPT ![r] = IF ThreadIniciada(id)
                                              THEN "baixar" ELSE "recusada"]
                   /\ resposta' = [resposta EXCEPT ![r] =
                                     IF id # None THEN "202" ELSE "500"]
                   /\ corpo' = [corpo EXCEPT ![r] =
                                  IF id # None THEN Aceite(id, k)
                                  ELSE Recusa("500", dados)]
                   /\ id_projeto' = [id_projeto EXCEPT ![r] = k]
            ELSE LET codigo == IF require_apikey(api_key) THEN "400"
                               ELSE "401"
                 IN /\ resposta' = [resposta EXCEPT ![r] = codigo]
                    /\ corpo' = [corpo EXCEPT ![r] = Recusa(codigo, dados)]
                    /\ pc' = [pc EXCEPT ![r] = "recusada"]
                    /\ UNCHANGED <<requisicoes, registro_id, id_projeto>>
    /\ UNCHANGED <<visto, entregue, espera, ACTIVE_PRESET>>
    /\ UNCHANGED <<locais, causa, retorno, chamadas, temp, opcoes_name, bucket>>

\* ---------------------------------------------- 1. baixar_imagens_projeto
\* a test of the image count that lets a run without images go on
SemImagens_Nunca(n) == n < 0

\* a test that also gives up a run with a single image
SemImagens_AteUma(n) == n <= 1

\* num_imagens == 0, main.py:108
SemImagens(n) == n = 0

Max(a, b) == IF a >= b THEN a ELSE b
Min(a, b) == IF a <= b THEN a ELSE b

\* The listing finds `validas` objects with a supported extension and the
\* download of each either succeeds (contador counts it) or raises.  A file
\* downloaded replaces the file of the same name another run of the same
\* project left in the directory, so the directory then holds `total` files.
\* When get_project_temp_dir raises (line 170) the except clause calls it
\* again (line 217) and the exception leaves the function.
baixar_imagens_projeto(r) ==
    /\ pc[r] = "baixar"
    /\ Registrar(r, Chamada("baixar_imagens_projeto", None, None, None, None))
    /\ \/ /\ Abortar(r, "excecao")
          /\ UNCHANGED <<temp, num_imagens, listadas>>
       \/ \E validas \in 0..MaxImages : \E contador \in 0..validas :
          \E total \in Max(temp[id_projeto[r]].imagens, contador) ..
                        Min(temp[id_projeto[r]].imagens + contador, MaxImages) :
            /\ temp' = [temp EXCEPT ![id_projeto[r]] =
                          [get_project_temp_dir(@) EXCEPT !.imagens = total]]
            /\ listadas' = [listadas EXCEPT ![r] = validas]
            /\ num_imagens' = [num_imagens EXCEPT ![r] = contador]
            /\ IF SemImagens(contador)
               THEN Abortar(r, "sem_imagens")
               ELSE /\ pc' = [pc EXCEPT ![r] = "webodm_opcoes"]
                    /\ UNCHANGED causa
    /\ UNCHANGED <<http, visto, entregue, espera, ACTIVE_PRESET>>
    /\ UNCHANGED <<id_projeto, imagens, task, status_wl, caminho_metadados,
                   metadados, url_ortomosaico, success_db, retorno,
                   requisicoes, opcoes_name, bucket>>

\* -------------------------------------------- 2. processar_imagens_webodm
\* Lines 335-369: the node object is built (Node or int(WEBODM_PORT) may
\* raise), the images of the directory are listed (os.listdir raises when
\* the directory is gone) and the options of this project are written into
\* config.ortomosaico_preset, the dictionary every run uses.  Of the options
\* written only "name" differs from run to run.
webodm_opcoes(r) ==
    /\ pc[r] = "webodm_opcoes"
    /\ Registrar(r, Chamada("processar_imagens_webodm", None, None, None, None))
    /\ \E node \in BOOLEAN :
       LET d == temp[id_projeto[r]] IN
       IF node /\ d.existe /\ d.imagens # 0
       THEN /\ imagens' = [imagens EXCEPT ![r] = d.imagens]
            /\ opcoes_name' = NomeProjeto(id_projeto[r])
            /\ pc' = [pc EXCEPT ![r] = "webodm_criar"]
            /\ UNCHANGED causa
       ELSE /\ Abortar(r, "submit")
            /\ UNCHANGED <<imagens, opcoes_name>>
    /\ listadas' = [listadas EXCEPT ![r] = -1]
    /\ UNCHANGED <<http, visto, entregue, espera, ACTIVE_PRESET>>
    /\ UNCHANGED <<id_projeto, num_imagens, task,
                   status_wl, caminho_metadados, metadados, url_ortomosaico,
                   success_db, retorno, requisicoes, temp, bucket>>

\* the options create_task is given: the shared dictionary as it is now
OpcoesEnviadas(k) == opcoes_name

\* Line 372: node.create_task(imagens, opcoes); it raises when the node
\* refuses or when an image file is no longer there.
webodm_criar(r) ==
    /\ pc[r] = "webodm_criar"
    /\ Registrar(r, Chamada("create_task", None, None, None, None))
    /\ \E aceita \in BOOLEAN :
         IF aceita /\ imagens[r] <= temp[id_projeto[r]].imagens
         THEN /\ task' = [task EXCEPT ![r] =
                            [uuid |-> "task-" \o ToString(r),
                             name |-> OpcoesEnviadas(id_projeto[r]),
                             parametros |-> ortomosaico_preset]]
              /\ pc' = [pc EXCEPT ![r] = "registrar_id"]
              /\ UNCHANGED causa
         ELSE /\ Abortar(r, "submit")
              /\ UNCHANGED task
    /\ imagens' = [imagens EXCEPT ![r] = 0]
    /\ UNCHANGED <<http, visto, entregue, espera, ACTIVE_PRESET>>
    /\ UNCHANGED <<id_projeto, num_imagens, listadas,
                   status_wl, caminho_metadados, metadados, url_ortomosaico,
                   success_db, retorno, requisicoes, temp, opcoes_name, bucket>>

\* main.py:125: the task id is written to the record; the result is ignored
registrar_id(r) ==
    /\ pc[r] = "registrar_id"
    /\ Registrar(r, Chamada("atualizar_registro_requisicao", task[r].uuid,
                            None, None, None))
    /\ \E o \in LedgerOutcomes :
         requisicoes' = atualizar_tabela(requisicoes, registro_id[r],
                                         task[r].uuid, None, None, o)
    /\ pc' = [pc EXCEPT ![r] = "aguardar"]
    /\ UNCHANGED <<http, visto, entregue, espera, ACTIVE_PRESET>>
    /\ UNCHANGED <<id_projeto, locais, causa, retorno, temp, opcoes_name, bucket>>

\* ------------------------------------------------ 3. aguardar_processamento
\* handlers.py:397-420: the status of task.info() after wait_for_completion,
\* or "FAILED" when anything raised
aguardar_processamento(status, raised) ==
    IF raised THEN <<"FAILED", FALSE>> ELSE <<status, status = "COMPLETED">>

\* a test of the result of the wait that lets every run go on
Prossegue_Sempre(success) == TRUE

\* main.py:130: "if not success" is the abort
Prossegue(success) == success

\* The whole call: s is the last status the task reported (None when no
\* status check was answered) and raised tells whether an exception was
\* caught at line 417: TaskFailedError after CANCELED or FAILED, or the
\* exception of a status request.  wait_for_completion returns without an
\* exception only after COMPLETED, and a task that has completed stays so:
\* the task.info() of line 411 then reports COMPLETED or raises.
aguardar(r) ==
    /\ pc[r] = "aguardar"
    /\ Registrar(r, Chamada("aguardar_processamento", None, None, None, None))
    /\ \E s \in TaskStatus \cup {None}, raised \in BOOLEAN :
         LET res == aguardar_processamento(s, raised) IN
         /\ s # "COMPLETED" => raised
         /\ status_wl' = [status_wl EXCEPT ![r] = res[1]]
         /\ visto' = [visto EXCEPT ![r] = s]
         /\ IF Prossegue(res[2])
            THEN /\ pc' = [pc EXCEPT ![r] = "resultados"]
                 /\ UNCHANGED causa
            ELSE Abortar(r, "processamento")
    /\ UNCHANGED <<http, entregue, espera, ACTIVE_PRESET>>
    /\ UNCHANGED <<id_projeto, num_imagens, listadas, imagens, task,
                   caminho_metadados, metadados, url_ortomosaico, success_db,
                   retorno, requisicoes, temp, opcoes_name, bucket>>

\* ------------------------------- aguardar_processamento, one step at a time
\* handlers.py:401-407: the arguments of task.wait_for_completion
max_timeout == 64800
interval == 30
retry_timeout == 5
max_retries == max_timeout \div interval

\* what one request of the status of the task brings back: the status, or
\* the exception of a lost connection, or the exception of a refused request
Respostas == TaskStatus \cup {"NodeConnectionError", "NodeResponseError"}

\* the seconds slept, read up to the first instant past max_timeout
Relogio(t) == Min(t, max_timeout + interval)
\* the status checks made, counted up to MaxChecks + 1
Contar(n) == Min(n + 1, MaxChecks + 1)

\* line 397: the call begins
aguardar_inicio ==
    /\ espera.pc = "idle"
    /\ espera' = [espera EXCEPT !.pc = "loop"]
    /\ UNCHANGED pipeline

\* One turn of the loop of task.wait_for_completion(interval, max_retries,
\* retry_timeout), line 404: a lost connection is tried again after
\* retry_timeout seconds, max_retries times in a row; COMPLETED ends the
\* loop; CANCELED and FAILED end it with TaskFailedError; any other status
\* is followed by a sleep of interval seconds and the next turn.  An
\* exception that leaves the loop is caught at line 417.
wait_for_completion(e, resp) ==
    LET n == Contar(e.checks) IN
    CASE resp = "NodeConnectionError" ->
           IF e.retry < max_retries
           THEN [e EXCEPT !.checks = n, !.retry = @ + 1,
                          !.tempo = Relogio(@ + retry_timeout)]
           ELSE [e EXCEPT !.checks = n, !.pc = "fim",
                          !.ret = aguardar_processamento(None, TRUE)]
      [] resp = "NodeResponseError" ->
           [e EXCEPT !.checks = n, !.pc = "fim",
                     !.ret = aguardar_processamento(None, TRUE)]
      [] resp = "COMPLETED" ->
           [e EXCEPT !.checks = n, !.retry = 0, !.visto = resp,
                     !.k = IF @ = 0 THEN n ELSE @, !.pc = "info"]
      [] resp \in {"CANCELED", "FAILED"} ->
           [e EXCEPT !.checks = n, !.retry = 0, !.visto = resp, !.pc = "fim",
                     !.ret = aguardar_processamento(resp, TRUE)]
      [] OTHER ->
           [e EXCEPT !.checks = n, !.retry = 0, !.visto = resp,
                     !.tempo = Relogio(@ + interval)]

\* the connection is lost only during the first MaxChecks status checks
aguardar_consulta ==
    /\ espera.pc = "loop"
    /\ \E resp \in Respostas :
         /\ resp = "NodeConnectionError" => espera.checks < MaxChecks
         /\ espera' = wait_for_completion(espera, resp)
    /\ UNCHANGED pipeline

\* lines 411-415: task.info() once more, and the status it reports is the
\* one returned; an exception of it is caught at line 417.  The task has
\* completed: it reports COMPLETED, or the request fails.
aguardar_info ==
    /\ espera.pc = "info"
    /\ \E resp \in Respostas \ (TaskStatus \ {"COMPLETED"}) :
         /\ resp = "NodeConnectionError" => espera.checks < MaxChecks
         /\ espera' =
              [espera EXCEPT
                 !.checks = Contar(@), !.pc = "fim",
                 !.visto = IF resp \in TaskStatus THEN resp ELSE @,
                 !.ret = IF resp \in TaskStatus
                         THEN aguardar_processamento(resp, FALSE)
                         ELSE aguardar_processamento(None, TRUE)]
    /\ UNCHANGED pipeline

\* ----------------------------------------------------- 4. baixar_resultados
\* handlers.py:434-463: the directory and its "resultados" subdirectory are
\* (re)created, the assets are downloaded (or download_assets raises) and
\* odm_orthophoto/odm_orthophoto.tif is in the bundle or not.
baixar_resultados(r) ==
    /\ pc[r] = "resultados"
    /\ Registrar(r, Chamada("baixar_resultados", None, None, None, None))
    /\ \E bundle \in {"raise", "ausente", "presente"} :
         /\ temp' = [temp EXCEPT ![id_projeto[r]] =
                       [get_project_temp_dir(@) EXCEPT
                           !.resultados = TRUE,
                           !.ortomosaico = @ \/ bundle = "presente"]]
         /\ IF bundle = "presente"
            THEN /\ pc' = [pc EXCEPT ![r] = "gerar_metadados"]
                 /\ UNCHANGED causa
            ELSE Abortar(r, "resultados")
    /\ visto' = [visto EXCEPT ![r] = None]
    /\ UNCHANGED <<http, entregue, espera, ACTIVE_PRESET>>
    /\ UNCHANGED <<id_projeto, locais, retorno, requisicoes, opcoes_name, bucket>>

\* ------------------------------------------------------- 5. gerar_metadados
\* handlers.py:482-574: task.info() may raise; metadados.txt is written into
\* the directory of the mosaic (open raises when it is gone); the parameters
\* written are the items of config.ortomosaico_preset at that moment, and the
\* file name of the mosaic is the one of line 559.
gerar_metadados(r) ==
    /\ pc[r] = "gerar_metadados"
    /\ Registrar(r, Chamada("gerar_metadados", None, None, None, None))
    /\ \E info \in BOOLEAN :
         IF info /\ temp[id_projeto[r]].resultados
         THEN /\ temp' = [temp EXCEPT ![id_projeto[r]].metadados = TRUE]
              /\ metadados' = [metadados EXCEPT ![r] =
                                 [name |-> opcoes_name,
                                  num_imagens |-> num_imagens[r],
                                  arquivo |-> NomeNosMetadados,
                                  preset_nome |-> ACTIVE_PRESET]]
              /\ caminho_metadados' = [caminho_metadados EXCEPT ![r] = TRUE]
         ELSE /\ caminho_metadados' = [caminho_metadados EXCEPT ![r] = FALSE]
              /\ UNCHANGED <<temp, metadados>>
    /\ pc' = [pc EXCEPT ![r] = "enviar_orto"]
    /\ UNCHANGED <<http, visto, entregue, espera, ACTIVE_PRESET>>
    /\ UNCHANGED <<id_projeto, num_imagens, listadas, imagens, task,
                   status_wl, url_ortomosaico, success_db, causa, retorno,
                   requisicoes, opcoes_name, bucket>>

\* ---------------------------------------- 6. enviar_ortomosaico_para_bucket
\* a run that gives up when gerar_metadados returned no path
DepoisEnvioOrto_Fatal(tem_metadados) ==
    IF tem_metadados THEN "enviar_meta" ELSE "err_webhook"

\* a run that uploads the metadata whether or not there is a path
DepoisEnvioOrto_Sempre(tem_metadados) == "enviar_meta"

\* main.py:168: the metadata upload is a step only when there is a path
DepoisEnvioOrto(tem_metadados) ==
    IF tem_metadados THEN "enviar_meta" ELSE "commit"

\* handlers.py:231-281: (None, False) when the local file is gone or the
\* upload raises, else the public url of <id_projeto>/odm_ortophoto.tif
enviar_ortomosaico_para_bucket(r) ==
    /\ pc[r] = "enviar_orto"
    /\ Registrar(r, Chamada("enviar_ortomosaico_para_bucket", None, None,
                            None, None))
    /\ \E upload \in BOOLEAN :
         IF upload /\ temp[id_projeto[r]].ortomosaico
         THEN /\ bucket' = [bucket EXCEPT ![id_projeto[r]].ortomosaico = TRUE]
              /\ url_ortomosaico' = [url_ortomosaico EXCEPT ![r] =
                                       UrlPublica(id_projeto[r])]
              /\ pc' = [pc EXCEPT ![r] = DepoisEnvioOrto(caminho_metadados[r])]
              /\ UNCHANGED causa
         ELSE /\ Abortar(r, "envio")
              /\ UNCHANGED <<bucket, url_ortomosaico>>
    /\ UNCHANGED <<http, visto, entregue, espera, ACTIVE_PRESET>>
    /\ UNCHANGED <<id_projeto, num_imagens, listadas, imagens, task,
                   status_wl, caminho_metadados, metadados, success_db,
                   retorno, requisicoes, temp, opcoes_name>>

\* ------------------------------------------ 7. enviar_metadados_para_bucket
\* handlers.py:294-319; main.py:169 ignores the result
enviar_metadados_para_bucket(r) ==
    /\ pc[r] = "enviar_meta"
    /\ Registrar(r, Chamada("enviar_metadados_para_bucket", None, None,
                            None, None))
    /\ \E upload \in BOOLEAN :
         IF upload /\ temp[id_projeto[r]].metadados
         THEN bucket' = [bucket EXCEPT ![id_projeto[r]].metadados = TRUE]
         ELSE UNCHANGED bucket
    /\ pc' = [pc EXCEPT ![r] = "commit"]
    /\ UNCHANGED <<http, visto, entregue, espera, ACTIVE_PRESET>>
    /\ UNCHANGED <<id_projeto, locais, causa, retorno, requisicoes, temp,
                   opcoes_name>>

\* ------------------------------------------------- 8. the terminal commit
\* a commit that is called again when it failed
DepoisCommit_Repete(ok) == IF ok THEN "webhook_sucesso" ELSE "commit"

\* a success exit that goes from the commit straight to the cleanup
DepoisCommit_SemWebhook(ok) ==
    IF ok THEN "limpar" ELSE InicioAbort("commit")

\* a commit whose result is not tested
DepoisCommit_SemTeste(ok) == "webhook_sucesso"

\* main.py:176-183: the success webhook after a commit that returned True,
\* the abort otherwise
DepoisCommit(ok) == IF ok THEN "webhook_sucesso" ELSE InicioAbort("commit")

commit(r) ==
    /\ pc[r] = "commit"
    /\ Registrar(r, Chamada("atualizar_registro_requisicao", None, "Sucesso",
                            url_ortomosaico[r], None))
    /\ \E o \in LedgerOutcomes :
         LET ok == atualizar_registro_requisicao(None, "Sucesso",
                                                 url_ortomosaico[r], o) IN
         /\ requisicoes' = atualizar_tabela(requisicoes, registro_id[r], None,
                                            "Sucesso", url_ortomosaico[r], o)
         /\ success_db' = [success_db EXCEPT ![r] = ok]
         /\ pc' = [pc EXCEPT ![r] = DepoisCommit(ok)]
         /\ causa' = [causa EXCEPT ![r] = IF ok THEN None ELSE "commit"]
    /\ UNCHANGED <<http, visto, entregue, espera, ACTIVE_PRESET>>
    /\ UNCHANGED <<id_projeto, num_imagens, listadas, imagens, task,
                   status_wl, caminho_metadados, metadados, url_ortomosaico,
                   retorno, temp, opcoes_name, bucket>>

\* ---------------------------------------------------------- enviar_webhook
\* What becomes of a notification: the endpoint answers 2xx, it answers
\* another status, requests.post raises, or no WEBHOOK_URL is configured.
Entregas == {"2xx", "nao_2xx", "excecao", "sem_url"}

\* handlers.py:590-643: the return value
enviar_webhook(e) == IF e = "2xx" THEN "True" ELSE "False"

\* "not x" of a string or None
Vazio(x) == x \in {None, ""}

\* handlers.py:608-611: what the select of url_ortomosaico by id_projeto may
\* bring: the url of a record of the project, or nothing (no record, no url
\* in it, or the select raises)
UrlsDoBanco(k) ==
    {None} \cup {requisicoes[i].url_ortomosaico :
                   i \in {j \in DOMAIN requisicoes :
                            requisicoes[j].id_projeto = k}}

\* handlers.py:605: the select is made only for a success notification
\* called without a url; otherwise nothing is brought
Consulta(status, url, k) ==
    IF status = "sucesso" /\ Vazio(url) THEN UrlsDoBanco(k) ELSE {None}

\* handlers.py:604-618: the url_ortomosaico of the payload, None when the
\* payload has none.  A success notification called without a url takes the
\* one the select brought.
payload_url(status, url, do_banco) ==
    LET u == IF status = "sucesso" /\ Vazio(url) /\ ~Vazio(do_banco)
             THEN do_banco ELSE url
    IN IF Vazio(u) THEN None ELSE u

\* an abort that passes on the url of the mosaic it had published
UrlDoErro_Publicado(c, url) == IF c = "commit" THEN url ELSE None

\* main.py:111,120,133,143,163,178,199: the error webhook is called without
\* url_ortomosaico, whatever the cause c and the url the run holds
UrlDoErro(c, url) == None

\* a caller that sends the error webhook when the delivery failed
DepoisNotificar_Reenvia(ok, seguinte) ==
    IF ok = "True" THEN seguinte ELSE "err_webhook"

\* main.py:111,120,133,143,163,178,183,199: the call is a statement, its
\* value is dropped and the next statement follows
DepoisNotificar(ok, seguinte) == seguinte

\* ------------------------------------------------------ 9. success webhook
\* In the calls kept of enviar_webhook the url is the one of the payload.
\* a success exit that returns without the cleanup
DepoisWebhookSucesso_SemLimpeza == "fim"

\* a success exit that writes the record once more after the webhook
DepoisWebhookSucesso_Regrava == "commit"

\* main.py:183-186: the cleanup follows the success webhook
DepoisWebhookSucesso == "limpar"

webhook_sucesso(r) ==
    /\ pc[r] = "webhook_sucesso"
    /\ \E do_banco \in Consulta("sucesso", url_ortomosaico[r], id_projeto[r]) :
         Registrar(r, Chamada("enviar_webhook", None, "sucesso",
                              payload_url("sucesso", url_ortomosaico[r],
                                          do_banco), None))
    /\ \E e \in Entregas :
         /\ entregue' = [entregue EXCEPT ![r] = enviar_webhook(e)]
         /\ pc' = [pc EXCEPT ![r] =
                     DepoisNotificar(enviar_webhook(e), DepoisWebhookSucesso)]
    /\ UNCHANGED <<http, visto, espera, ACTIVE_PRESET>>
    /\ UNCHANGED <<id_projeto, locais, causa, retorno, requisicoes, temp,
                   opcoes_name, bucket>>

\* ------------------------------------------ 10. limpar_arquivos_temporarios
\* handlers.py:656-671: the directory of the project key is removed whole
limpar_arquivos_temporarios(r) ==
    /\ pc[r] = "limpar"
    /\ Registrar(r, Chamada("limpar_arquivos_temporarios", None, None, None,
                            None))
    /\ temp' = [temp EXCEPT ![id_projeto[r]] = SemDiretorio]
    /\ pc' = [pc EXCEPT ![r] = "fim"]
    /\ visto' = [visto EXCEPT ![r] = None]
    /\ entregue' = [entregue EXCEPT ![r] = None]
    /\ retorno' = [retorno EXCEPT ![r] = IF causa[r] = None THEN "True"
                                         ELSE "False"]
    /\ UNCHANGED <<http, espera, ACTIVE_PRESET>>
    /\ UNCHANGED <<id_projeto, locais, causa, requisicoes, opcoes_name, bucket>>

\* ------------------------------------------------------- the abort exits
\* the table update of an abort; its result is ignored
atualizar_erro(r) ==
    /\ pc[r] = "err_ledger"
    /\ Registrar(r, Chamada("atualizar_registro_requisicao", None,
                            StatusErro(causa[r], status_wl[r]), None, None))
    /\ \E o \in LedgerOutcomes :
         requisicoes' = atualizar_tabela(requisicoes, registro_id[r], None,
                            StatusErro(causa[r], status_wl[r]), None, o)
    /\ pc' = [pc EXCEPT ![r] = "err_webhook"]
    /\ visto' = [visto EXCEPT ![r] = None]
    /\ UNCHANGED <<http, entregue, espera, ACTIVE_PRESET>>
    /\ UNCHANGED <<id_projeto, locais, causa, retorno, temp, opcoes_name, bucket>>

\* the error webhook of an abort; after it the cleanup, or the return
webhook_erro(r) ==
    /\ pc[r] = "err_webhook"
    /\ \E do_banco \in Consulta("erro", UrlDoErro(causa[r], url_ortomosaico[r]),
                               id_projeto[r]) :
         Registrar(r, Chamada("enviar_webhook", None, "erro",
                              payload_url("erro",
                                          UrlDoErro(causa[r],
                                                    url_ortomosaico[r]),
                                          do_banco),
                              MensagemErro(causa[r], status_wl[r])))
    /\ \E e \in Entregas :
         LET seguinte == DepoisNotificar(enviar_webhook(e),
                                         DepoisWebhookErro(causa[r])) IN
         /\ pc' = [pc EXCEPT ![r] = seguinte]
         /\ entregue' = [entregue EXCEPT ![r] =
                           IF seguinte = "fim" THEN None
                           ELSE enviar_webhook(e)]
         /\ retorno' = [retorno EXCEPT ![r] =
                          IF seguinte = "fim" THEN "False" ELSE @]
    /\ UNCHANGED <<http, visto, espera, ACTIVE_PRESET>>
    /\ UNCHANGED <<id_projeto, locais, causa, requisicoes, temp, opcoes_name,
                   bucket>>

\* ----------------------------------------------------------------- Next
Next ==
    \/ \E r \in Runs, k \in Keys : processar_ortomosaico(r, k)
    \/ \E r \in Runs : baixar_imagens_projeto(r)
    \/ \E r \in Runs : webodm_opcoes(r)
    \/ \E r \in Runs : webodm_criar(r)
    \/ \E r \in Runs : registrar_id(r)
    \/ \E r \in Runs : aguardar(r)
    \/ \E r \in Runs : baixar_resultados(r)
    \/ \E r \in Runs : gerar_metadados(r)
    \/ \E r \in Runs : enviar_ortomosaico_para_bucket(r)
    \/ \E r \in Runs : enviar_metadados_para_bucket(r)
    \/ \E r \in Runs : commit(r)
    \/ \E r \in Runs : webhook_sucesso(r)
    \/ \E r \in Runs : limpar_arquivos_temporarios(r)
    \/ \E r \in Runs : atualizar_erro(r)
    \/ \E r \in Runs : webhook_erro(r)

Spec == Init /\ [][Next]_vars

\* one call of aguardar_processamento on its own
NextEspera ==
    \/ aguardar_inicio
    \/ aguardar_consulta
    \/ aguardar_info

SpecEspera == Init /\ [][NextEspera]_vars

\* the server with one request: one run of processar_projeto on its own
SpecUm == InitUm /\ [][Next]_vars

\* one run of processar_projeto under every configuration of the preset
SpecPreset == InitPreset /\ [][Next]_vars


\* -------------------------------- atualizar_registro_requisicao, any call
\* the ids a caller passes: those of the records, and one of no record
IdsPassados == {IdRegistro(0), IdRegistro(1), IdRegistro(2)}

\* the values a caller passes: None (the default), an empty string, a value
IdsWlPassados == {None, "", "task-1"}
StatusPassados == {None, "Sucesso", "Erro: FAILED"}
UrlsPassadas == {None, UrlPublica("P1")}

\* the table holds the records of two requests, one per project key, and
\* the server has been started again: no run
InitTabela ==
    /\ InitRuns
    /\ pedidos = 0
    /\ espera = EsperaParada
    /\ ACTIVE_PRESET = "padrao"
    /\ requisicoes = [i \in IdsPassados \ {IdRegistro(0)} |->
                        NovoRegistro(IF i = IdRegistro(1) THEN "P1" ELSE "P2")]

\* One call atualizar_registro_requisicao(id_registro, id_wl, status_orto,
\* url_ortomosaico), handlers.py:113-154, with any arguments.  The caller is
\* no run of processar_projeto; the call is kept in chamadas[1], the id
\* passed in registro_id[1] and the value returned in success_db[1].
atualizar_chamada ==
    \E id \in IdsPassados, id_wl \in IdsWlPassados, st \in StatusPassados,
       url \in UrlsPassadas, o \in LedgerOutcomes :
      /\ requisicoes' = atualizar_tabela(requisicoes, id, id_wl, st, url, o)
      /\ registro_id' = [registro_id EXCEPT ![1] = id]
      /\ chamadas' = [chamadas EXCEPT ![1] =
                        <<Chamada("atualizar_registro_requisicao", id_wl, st,
                                  url, None)>>]
      /\ success_db' = [success_db EXCEPT ![1] =
                          atualizar_registro_requisicao(id_wl, st, url, o)]
      /\ UNCHANGED <<pedidos, pedido, resposta, corpo, visto, entregue, espera, ACTIVE_PRESET>>
      /\ UNCHANGED <<pc, id_projeto, num_imagens, listadas, imagens, task,
                     status_wl, caminho_metadados, metadados, url_ortomosaico,
                     causa, retorno, temp, opcoes_name, bucket>>

NextTabela == atualizar_chamada

SpecTabela == InitTabela /\ [][NextTabela]_vars

\* ======================================================== the properties
\* the positions of the calls of run r that satisfy P
Posicoes(r, P(_)) == {i \in DOMAIN chamadas[r] : P(chamadas[r][i])}

EhAtualizar(c) == c.op = "atualizar_registro_requisicao"
EhCommit(c) == EhAtualizar(c) /\ c.status = "Sucesso"
EhWebhookSucesso(c) == c.op = "enviar_webhook" /\ c.status = "sucesso"
EhWebhookErro(c) == c.op = "enviar_webhook" /\ c.status = "erro"
EhWebhook(c) == c.op = "enviar_webhook"
EhLimpar(c) == c.op = "limpar_arquivos_temporarios"
EhSubmissao(c) == c.op \in {"processar_imagens_webodm", "create_task"}

\* every status_orto an abort writes
ErrosDeStatus == {StatusErro(c, s) : c \in Causas, s \in TaskStatus} \ {None}
EhAtualizarErro(c) == EhAtualizar(c) /\ c.status \in ErrosDeStatus

\* the run is past the position of its success webhook
PassouWebhookSucesso(r) == pc[r] \in {"limpar", "fim"}

\* C1: the success webhook of a run is sent only right after the terminal
\* commit of the run (status "Sucesso", the same url) has returned True, and
\* once that commit has returned True the run sends it: a run that is past
\* the webhook position has sent it exactly when its commit returned True.
C1_SucessoSseCommit ==
    \A r \in Runs :
      LET t == chamadas[r]
          W == Posicoes(r, EhWebhookSucesso)
      IN /\ \A i \in W : /\ i > 1
                         /\ EhCommit(t[i - 1])
                         /\ t[i - 1].url = t[i].url
                         /\ success_db[r]
         /\ (PassouWebhookSucesso(r) /\ success_db[r]) => W # {}
         /\ (Posicoes(r, EhCommit) # {} /\ ~success_db[r]) => W = {}

C1_Witness ==
    \E r \in Runs : /\ pc[r] = "fim"
                    /\ success_db[r]
                    /\ Posicoes(r, EhWebhookSucesso) # {}

\* C2: whenever the success webhook of a run has been sent, the record of
\* the run holds status "Sucesso" and the url the webhook carries.
C2_RegistroJaGravado ==
    \A r \in Runs : \A i \in Posicoes(r, EhWebhookSucesso) :
      /\ requisicoes[registro_id[r]].status_orto = "Sucesso"
      /\ requisicoes[registro_id[r]].url_ortomosaico = chamadas[r][i].url

\* C3: on every abort, a table update with an error status is called before
\* the error webhook is sent.
C3_ErroGravadoAntesDoWebhook ==
    \A r \in Runs : \A i \in Posicoes(r, EhWebhookErro) :
      \E j \in Posicoes(r, EhAtualizarErro) : j < i

\* C4: a run that has ended has called limpar_arquivos_temporarios exactly
\* once, whatever its exit.
C4_LimpezaUmaVez ==
    \A r \in Runs :
      pc[r] = "fim" => Cardinality(Posicoes(r, EhLimpar)) = 1


\* C5: a run whose listing found no matching image aborts as "no images":
\* it never reaches processar_imagens_webodm nor create_task, the table
\* update it calls carries the no-images status and the webhook it sends is
\* the error webhook with the no-images message.
C5_SemImagensNaoSubmete ==
    \A r \in Runs :
      listadas[r] = 0 =>
        /\ causa[r] = "sem_imagens"
        /\ Posicoes(r, EhSubmissao) = {}
        /\ task[r].uuid = None
        /\ pc[r] \in {"err_ledger", "err_webhook", "fim"}
        /\ pc[r] # "err_ledger" =>
             \E i \in Posicoes(r, EhAtualizar) :
               chamadas[r][i].status = "Erro: Nenhuma imagem encontrada"
        /\ pc[r] = "fim" =>
             /\ \E i \in Posicoes(r, EhWebhookErro) :
                  chamadas[r][i].mensagem = "Nenhuma imagem encontrada"
             /\ Posicoes(r, EhWebhookSucesso) = {}

C5_Witness ==
    \E r \in Runs : /\ listadas[r] = 0
                    /\ pc[r] = "fim"
                    /\ Posicoes(r, EhWebhookErro) # {}

\* C6: when a run has ended in an abort, a table update carrying the error
\* status of the cause and an error webhook carrying the message of the same
\* cause have both been issued.
C6_CanaisConcordam ==
    \A r \in Runs :
      (pc[r] = "fim" /\ causa[r] # None) =>
        /\ \E i \in Posicoes(r, EhAtualizarErro) :
             chamadas[r][i].status = StatusErro(causa[r], status_wl[r])
        /\ \E j \in Posicoes(r, EhWebhookErro) :
             chamadas[r][j].mensagem = MensagemErro(causa[r], status_wl[r])

\* the run downloaded an image, its task was created and COMPLETED, the
\* mosaic was retrieved and uploaded, and the commit returned True
C7_TudoDeuCerto(r) ==
    /\ num_imagens[r] >= 1
    /\ task[r].uuid # None
    /\ status_wl[r] = "COMPLETED"
    /\ url_ortomosaico[r] # None
    /\ success_db[r]

\* C7: a run in which every fatal stage succeeded has, when it ends,
\* published the mosaic, called the commit with status "Sucesso" and the
\* (non-empty) url of the mosaic, sent one success webhook and no error
\* webhook, and removed its directory as its last call.
C7_CaminhoFeliz ==
    \A r \in Runs :
      (pc[r] = "fim" /\ C7_TudoDeuCerto(r)) =>
        LET t == chamadas[r] IN
        /\ bucket[id_projeto[r]].ortomosaico
        /\ \E i \in Posicoes(r, EhCommit) :
             /\ t[i].url = UrlPublica(id_projeto[r])
             /\ t[i].url \notin {None, ""}
        /\ \A i \in Posicoes(r, EhWebhookSucesso) :
             t[i].url = UrlPublica(id_projeto[r])
        /\ Cardinality(Posicoes(r, EhWebhookSucesso)) = 1
        /\ Posicoes(r, EhWebhookErro) = {}
        /\ Posicoes(r, EhLimpar) = {Len(t)}
        /\ retorno[r] = "True"

C7_Witness ==
    \E r \in Runs : /\ pc[r] = "fim"
                    /\ C7_TudoDeuCerto(r)
                    /\ ~caminho_metadados[r]
                    /\ requisicoes[registro_id[r]].id_wl = None
                    /\ requisicoes[registro_id[r]].status_orto = "Sucesso"

\* C8: a run that has ended has called enviar_webhook exactly once: with
\* "sucesso" when its commit returned True, with "erro" otherwise.
C8_UmaNotificacao ==
    \A r \in Runs :
      pc[r] = "fim" =>
        /\ Cardinality(Posicoes(r, EhWebhook)) = 1
        /\ success_db[r] => Posicoes(r, EhWebhookSucesso) # {}
        /\ ~success_db[r] => Posicoes(r, EhWebhookErro) # {}

C8_Witness ==
    \E r \in Runs : /\ pc[r] = "fim"
                    /\ causa[r] = "commit"
                    /\ Cardinality(Posicoes(r, EhWebhookErro)) = 1

\* C9: a run whose project key no other run has: the options its task was
\* created with, and the options its metadata records, carry the name
\* "Projeto_<its own key>".
C9_NomeDoProprioProjeto ==
    \A r \in Runs :
      (\A q \in Runs \ {r} : id_projeto[q] # id_projeto[r]) =>
        /\ task[r].uuid # None => task[r].name = NomeProjeto(id_projeto[r])
        /\ caminho_metadados[r] =>
             metadados[r].name = NomeProjeto(id_projeto[r])

\* C10: the files a run put into its directory are there as long as the run
\* uses them: the images it downloaded until its task is created, the mosaic
\* it retrieved until it is uploaded, the metadata file until it is uploaded.
C10_DiretorioExclusivo ==
    \A r \in Runs :
      LET d == temp[id_projeto[r]] IN
      /\ pc[r] = "webodm_opcoes" => d.existe /\ d.imagens >= num_imagens[r]
      /\ pc[r] = "webodm_criar" => d.existe /\ d.imagens >= imagens[r]
      /\ pc[r] \in {"gerar_metadados", "enviar_orto"} => d.ortomosaico
      /\ (pc[r] = "enviar_meta" /\ caminho_metadados[r]) => d.metadados

\* C11: once max_timeout seconds of waiting have gone by without a terminal
\* status, aguardar_processamento has returned, with success False, and
\* makes no further status check.
C11_EsperaMaxima ==
    espera.tempo >= max_timeout => (espera.pc = "fim" /\ ~espera.ret[2])

\* C12: when the task reports COMPLETED on the k-th status check,
\* aguardar_processamento has made exactly k status checks when it returns,
\* and it returns ("COMPLETED", True).
C12_KConsultas ==
    (espera.pc = "fim" /\ espera.k >= 1) =>
        /\ espera.checks = espera.k
        /\ espera.ret = <<"COMPLETED", TRUE>>

\* in this step run r makes the call that follows the wait
C13_ChamadaSeguinte(r) ==
    /\ causa[r] = "processamento"
    /\ visto[r] # None
    /\ Len(chamadas'[r]) = Len(chamadas[r]) + 1

\* C13: a run whose wait returned a status other than COMPLETED aborts as
\* processing-failed; the status in the table update of the abort is the
\* last status the task reported, and the message of the error webhook
\* carries the same status.
C13_UltimoStatusObservado ==
    /\ [](\A r \in Runs :
            status_wl[r] \notin {None, "COMPLETED"} =>
              causa[r] = "processamento")
    /\ [][\A r \in Runs :
            C13_ChamadaSeguinte(r) =>
              LET c == chamadas'[r][Len(chamadas'[r])] IN
              EhAtualizar(c) /\ c.status = "Erro: " \o visto[r]]_vars
    /\ [](\A r \in Runs :
            (causa[r] = "processamento" /\ pc[r] \in {"limpar", "fim"}) =>
              \E st \in TaskStatus :
                /\ \E i \in Posicoes(r, EhAtualizar) :
                     chamadas[r][i].status = "Erro: " \o st
                /\ \E j \in Posicoes(r, EhWebhookErro) :
                     chamadas[r][j].mensagem = "Processamento falhou: " \o st)

\* the table update of a run that carries the text of the exception
C14_Atualizacao(c) ==
    /\ EhAtualizar(c)
    /\ c.status = "Erro: " \o TextoExcecao
    /\ c.url = None

\* the error webhook of a run whose message is the text of the exception
C14_Webhook(c) == EhWebhookErro(c) /\ c.mensagem = TextoExcecao

\* C14: a run in which an exception reached the except clause of
\* processar_projeto makes, as its last calls and in this order, the table
\* update with status "Erro: <text>", the error webhook with message
\* "<text>" and the cleanup, each of them once.
C14_ExcecaoInesperada ==
    \A r \in Runs :
      causa[r] = "excecao" =>
        LET t == chamadas[r]
            n == Len(t)
        IN /\ pc[r] \in {"err_ledger", "err_webhook", "limpar", "fim"}
           /\ pc[r] = "err_webhook" => C14_Atualizacao(t[n])
           /\ pc[r] = "limpar" =>
                C14_Atualizacao(t[n - 1]) /\ C14_Webhook(t[n])
           /\ pc[r] = "fim" =>
                /\ C14_Atualizacao(t[n - 2])
                /\ C14_Webhook(t[n - 1])
                /\ EhLimpar(t[n])
                /\ Cardinality(Posicoes(r, EhAtualizar)) = 1
                /\ Cardinality(Posicoes(r, EhWebhook)) = 1
                /\ Cardinality(Posicoes(r, EhLimpar)) = 1
                /\ retorno[r] = "False"

C14_Witness ==
    \E r \in Runs : /\ causa[r] = "excecao"
                    /\ pc[r] = "fim"
                    /\ EhLimpar(chamadas[r][Len(chamadas[r])])
                    /\ ~temp[id_projeto[r]].existe

EhRegistrarId(c) == EhAtualizar(c) /\ c.id_wl # None
EhGerarMetadados(c) == c.op = "gerar_metadados"
EhEnvioOrto(c) == c.op = "enviar_ortomosaico_para_bucket"
EhEnvioMeta(c) == c.op = "enviar_metadados_para_bucket"
EhAguardar(c) == c.op = "aguardar_processamento"

\* in run r every call that satisfies P is followed by a call that satisfies
\* Q, or, while it is the last call, by the position `posicao`
SegueSempre(r, P(_), Q(_), posicao) ==
    \A i \in Posicoes(r, P) :
      IF i = Len(chamadas[r]) THEN pc[r] = posicao ELSE Q(chamadas[r][i + 1])

\* C15: whatever the update with the task id, gerar_metadados and the
\* metadata upload return, the run goes on to the next stage (the wait, the
\* mosaic upload, the commit); a run that uploaded the mosaic calls the
\* commit with "Sucesso" and the url of the mosaic, and sends the success
\* webhook when the commit returned True.
C15_FalhasNaoFatais ==
    \A r \in Runs :
      /\ SegueSempre(r, EhRegistrarId, EhAguardar, "aguardar")
      /\ SegueSempre(r, EhGerarMetadados, EhEnvioOrto, "enviar_orto")
      /\ SegueSempre(r, EhEnvioMeta, EhCommit, "commit")
      /\ (pc[r] = "fim" /\ url_ortomosaico[r] # None) =>
           /\ bucket[id_projeto[r]].ortomosaico
           /\ \E i \in Posicoes(r, EhCommit) :
                chamadas[r][i].url = url_ortomosaico[r]
           /\ success_db[r] => Posicoes(r, EhWebhookSucesso) # {}

\* the three failures in runs that ended in success: no metadata path; or a
\* metadata file that did not reach the bucket and a record without task id
C15_Witness ==
    /\ \E r \in Runs : /\ pc[r] = "fim"
                       /\ Posicoes(r, EhWebhookSucesso) # {}
                       /\ Posicoes(r, EhEnvioMeta) # {}
                       /\ ~bucket[id_projeto[r]].metadados
                       /\ requisicoes[registro_id[r]].id_wl = None
                       /\ requisicoes[registro_id[r]].status_orto = "Sucesso"

\* the calls that are stages of the pipeline (the calls of an abort, the
\* table update with an error status, the error webhook and the cleanup,
\* are not)
EhEstagio(c) ==
    \/ c.op \in {"baixar_imagens_projeto", "processar_imagens_webodm",
                 "create_task", "aguardar_processamento", "baixar_resultados",
                 "gerar_metadados", "enviar_ortomosaico_para_bucket",
                 "enviar_metadados_para_bucket"}
    \/ EhRegistrarId(c)
    \/ EhCommit(c)
    \/ EhWebhookSucesso(c)

\* the call whose failure is the cause c of an abort
EhEstagioDaCausa(c, chamada) ==
    CASE c = "sem_imagens" -> chamada.op = "baixar_imagens_projeto"
      [] c = "submit" -> EhSubmissao(chamada)
      [] c = "processamento" -> EhAguardar(chamada)
      [] c = "resultados" -> chamada.op = "baixar_resultados"
      [] c = "envio" -> EhEnvioOrto(chamada)
      [] c = "commit" -> EhCommit(chamada)
      [] OTHER -> FALSE

\* C16: in a run that aborts after a failure of the image download, the
\* submission, the wait, the result retrieval, the mosaic upload or the
\* commit, the failed call is the last stage called: only a table update
\* with an error status, the error webhook and the cleanup follow it.  No
\* result is retrieved or uploaded after a wait that did not return
\* COMPLETED, nothing is uploaded after a failed retrieval, and no commit is
\* called without the url of an uploaded mosaic.
C16_FalhasFatais ==
    \A r \in Runs :
      LET t == chamadas[r] IN
      /\ causa[r] \in Causas \ {"excecao"} =>
           \E i \in DOMAIN t :
             /\ EhEstagioDaCausa(causa[r], t[i])
             /\ \A j \in DOMAIN t : j > i =>
                  /\ ~EhEstagio(t[j])
                  /\ EhAtualizarErro(t[j]) \/ EhWebhookErro(t[j]) \/ EhLimpar(t[j])
      /\ status_wl[r] \notin {None, "COMPLETED"} =>
           \A j \in DOMAIN t :
             /\ t[j].op \notin {"baixar_resultados", "gerar_metadados",
                                "enviar_ortomosaico_para_bucket",
                                "enviar_metadados_para_bucket"}
             /\ ~EhCommit(t[j])
      /\ causa[r] = "resultados" =>
           Posicoes(r, EhEnvioOrto) \cup Posicoes(r, EhEnvioMeta) = {}
      /\ Posicoes(r, EhCommit) # {} => url_ortomosaico[r] # None

C16_Witness ==
    \E r \in Runs : /\ pc[r] = "fim"
                    /\ causa[r] = "resultados"
                    /\ status_wl[r] = "COMPLETED"
                    /\ Posicoes(r, EhWebhookErro) # {}
                    /\ ~bucket[id_projeto[r]].ortomosaico

\* the stage a call belongs to
Estagio(c) ==
    CASE EhRegistrarId(c) -> "registrar_id"
      [] EhCommit(c) -> "commit"
      [] EhAtualizar(c) -> "atualizar_erro"
      [] EhWebhookSucesso(c) -> "webhook_sucesso"
      [] EhWebhookErro(c) -> "webhook_erro"
      [] OTHER -> c.op

\* the stages run r has called, in the order of the calls
Estagios(r) == [i \in DOMAIN chamadas[r] |-> Estagio(chamadas[r][i])]

\* the stages of the success path in the order of main.py:104-189
OrdemCompleta ==
    <<"baixar_imagens_projeto", "processar_imagens_webodm", "create_task",
      "registrar_id", "aguardar_processamento", "baixar_resultados",
      "gerar_metadados", "enviar_ortomosaico_para_bucket",
      "enviar_metadados_para_bucket", "commit", "webhook_sucesso",
      "limpar_arquivos_temporarios">>

\* the same without the metadata upload
OrdemSemMetadados ==
    SubSeq(OrdemCompleta, 1, 8) \o SubSeq(OrdemCompleta, 10, 12)

EhPrefixo(s, t) == Len(s) <= Len(t) /\ s = SubSeq(t, 1, Len(s))

\* C17 (as claimed): while a run has not aborted, the stages it has called
\* are the first stages of the full order, none skipped; a run that ended
\* in success has called all of them.
C17_NenhumEstagioOmitido ==
    \A r \in Runs :
      causa[r] = None =>
        /\ EhPrefixo(Estagios(r), OrdemCompleta)
        /\ pc[r] = "fim" => Estagios(r) = OrdemCompleta

\* C17 (amended): the same, except that the metadata upload is called only
\* when gerar_metadados returned a path; without one the commit follows the
\* mosaic upload.
C17_OrdemEstrita ==
    \A r \in Runs :
      causa[r] = None =>
        LET ordem == IF caminho_metadados[r] THEN OrdemCompleta
                     ELSE OrdemSemMetadados
        IN /\ EhPrefixo(Estagios(r), ordem)
           /\ pc[r] = "fim" => Estagios(r) = ordem

C17_Witness ==
    \E r \in Runs : /\ pc[r] = "fim"
                    /\ causa[r] = None
                    /\ caminho_metadados[r]
                    /\ Estagios(r) = OrdemCompleta

\* how many times run r has called the stage e
Vezes(r, e) == Cardinality({i \in DOMAIN chamadas[r] : Estagios(r)[i] = e})

\* C18: no run calls a stage of the pipeline more than once, whether the
\* call succeeded or failed.
C18_SemRepeticao ==
    \A r \in Runs : \A i \in DOMAIN OrdemCompleta :
      Vezes(r, OrdemCompleta[i]) <= 1

C18_Witness ==
    \E r \in Runs : /\ pc[r] = "fim"
                    /\ causa[r] = "commit"
                    /\ Vezes(r, "commit") = 1
                    /\ Vezes(r, "enviar_ortomosaico_para_bucket") = 1

\* in this step run r calls enviar_webhook
C19_Notifica(r) ==
    /\ Len(chamadas'[r]) = Len(chamadas[r]) + 1
    /\ EhWebhook(chamadas'[r][Len(chamadas'[r])])

\* what a step in which run r calls enviar_webhook does, given the state
\* before the call alone: the cleanup comes next (after the no-images
\* webhook, the return of False), and the table, the bucket, the directories
\* and the results of the stages stay as they are
C19_Seguinte(r) ==
    /\ pc'[r] = IF pc[r] = "webhook_sucesso" THEN "limpar"
                ELSE IF causa[r] = "sem_imagens" THEN "fim" ELSE "limpar"
    /\ retorno'[r] = IF causa[r] = "sem_imagens" THEN "False" ELSE retorno[r]
    /\ UNCHANGED <<requisicoes, bucket, temp, causa, success_db,
                   url_ortomosaico, status_wl>>

\* C19: the step in which a run calls enviar_webhook leads to the same
\* next position, return value, table, bucket and directories whatever the
\* call returns; the run then makes no further call but the cleanup, and
\* its return value tells only whether it aborted.
C19_EntregaNaoInflui ==
    /\ [][\A r \in Runs : C19_Notifica(r) => C19_Seguinte(r)]_vars
    /\ [](\A r \in Runs :
            /\ entregue[r] # None =>
                 /\ pc[r] = "limpar"
                 /\ EhWebhook(chamadas[r][Len(chamadas[r])])
            /\ pc[r] = "fim" =>
                 /\ Cardinality(Posicoes(r, EhWebhook)) = 1
                 /\ retorno[r] = IF causa[r] = None THEN "True" ELSE "False")

\* the success webhook was not delivered and the run is at its cleanup
C19_Witness ==
    \E r \in Runs : /\ entregue[r] = "False"
                    /\ pc[r] = "limpar"
                    /\ success_db[r]
                    /\ EhWebhookSucesso(chamadas[r][Len(chamadas[r])])

\* C20: a request for which criar_registro_requisicao returned None is
\* answered with 500 and starts nothing: no handler is called for it and no
\* webhook is sent; a run that was started has the id of a record of the
\* table, created for its project key, and its request was answered 202.
C20_SemRegistroNaoInicia ==
    \A r \in Runs :
      /\ (resposta[r] \notin {None, "400", "401"} /\ registro_id[r] = None) =>
           /\ pc[r] = "recusada"
           /\ resposta[r] = "500"
           /\ chamadas[r] = << >>
           /\ retorno[r] = None
      /\ pc[r] \notin {"idle", "recusada"} =>
           /\ registro_id[r] # None
           /\ registro_id[r] \in DOMAIN requisicoes
           /\ requisicoes[registro_id[r]].id_projeto = id_projeto[r]
           /\ resposta[r] = "202"

\* the row was inserted but its id was not found in the response
C20_Witness ==
    \E r \in Runs : /\ pc[r] = "recusada"
                    /\ resposta[r] = "500"
                    /\ registro_id[r] = None
                    /\ IdRegistro(r) \in DOMAIN requisicoes

\* C21: a request that is accepted is answered 202 with the id of its record
\* and the status "Em processamento", and it is answered before the run has
\* made any call; the answer, once given, stays as it is whatever the run
\* does and however it ends: what the run returns is in no answer.
C21_RespostaImediata ==
    /\ [](\A r \in Runs :
            resposta[r] = "202" =>
              /\ registro_id[r] # None
              /\ corpo[r].id_registro = registro_id[r]
              /\ corpo[r].id_projeto = id_projeto[r]
              /\ corpo[r].status = "Em processamento"
              /\ corpo[r].erro = None)
    /\ [][\A r \in Runs :
            /\ (resposta[r] = None /\ resposta'[r] # None) =>
                 chamadas'[r] = << >> /\ retorno'[r] = None
            /\ resposta[r] # None =>
                 resposta'[r] = resposta[r] /\ corpo'[r] = corpo[r]]_vars

\* the run ended in an abort and the answer still says "in progress"
C21_Witness ==
    \E r \in Runs : /\ pc[r] = "fim"
                    /\ retorno[r] = "False"
                    /\ resposta[r] = "202"
                    /\ corpo[r].status = "Em processamento"
                    /\ corpo[r].id_registro = IdRegistro(r)

\* C22: a call of atualizar_registro_requisicao leaves every record but the
\* one with the id passed as it is, and in that record every field that was
\* not supplied; a field that changes takes the value supplied; no record is
\* added or removed; a call that supplies no field leaves the table as it is
\* and returns False.
C22_SoCamposFornecidos ==
    [][LET c == chamadas'[1][1]
           id == registro_id'[1]
       IN /\ DOMAIN requisicoes' = DOMAIN requisicoes
          /\ \A i \in DOMAIN requisicoes :
               LET antes == requisicoes[i]
                   depois == requisicoes'[i]
               IN /\ i # id => depois = antes
                  /\ depois.id_projeto = antes.id_projeto
                  /\ c.id_wl = None => depois.id_wl = antes.id_wl
                  /\ c.status = None => depois.status_orto = antes.status_orto
                  /\ c.url = None =>
                       depois.url_ortomosaico = antes.url_ortomosaico
                  /\ depois.id_wl \in {antes.id_wl, c.id_wl}
                  /\ depois.status_orto \in {antes.status_orto, c.status}
                  /\ depois.url_ortomosaico \in {antes.url_ortomosaico, c.url}
          /\ (c.id_wl = None /\ c.status = None /\ c.url = None) =>
               /\ requisicoes' = requisicoes
               /\ ~success_db'[1]]_vars

\* a call with the status alone has changed the status of a record that
\* keeps the task id and the url earlier calls wrote, and the other record
\* is as it was created
C22_Witness ==
    /\ chamadas[1] # << >>
    /\ registro_id[1] = IdRegistro(1)
    /\ chamadas[1][1].id_wl = None
    /\ chamadas[1][1].url = None
    /\ chamadas[1][1].status = "Erro: FAILED"
    /\ success_db[1]
    /\ requisicoes[IdRegistro(1)] =
         [id_projeto |-> "P1", id_wl |-> "task-1",
          status_orto |-> "Erro: FAILED",
          url_ortomosaico |-> UrlPublica("P1")]
    /\ requisicoes[IdRegistro(2)] = NovoRegistro("P2")

\* in this step run r calls atualizar_registro_requisicao
C23_Atualiza(r) ==
    /\ Len(chamadas'[r]) = Len(chamadas[r]) + 1
    /\ EhAtualizar(chamadas'[r][Len(chamadas'[r])])

\* C23: no two runs hold the id of the same record, and a step that changes
\* a record is a call of atualizar_registro_requisicao by the run that holds
\* the id of that record; a request adds a record and changes none.  So of
\* any runs, also runs for the same project key, none writes the record of
\* another.
C23_SoOProprioRegistro ==
    /\ [](\A r, q \in Runs :
            (r # q /\ registro_id[r] # None) =>
              registro_id[r] # registro_id[q])
    /\ [][/\ DOMAIN requisicoes \subseteq DOMAIN requisicoes'
          /\ \A i \in DOMAIN requisicoes :
               requisicoes'[i] # requisicoes[i] =>
                 \E r \in Runs : registro_id[r] = i /\ C23_Atualiza(r)]_vars

\* two runs for the same project key have ended, one in success and one in
\* an abort, and each record tells how its own run ended
C23_Witness ==
    \E r, q \in Runs :
      /\ r # q
      /\ id_projeto[r] = id_projeto[q]
      /\ pc[r] = "fim" /\ pc[q] = "fim"
      /\ requisicoes[registro_id[r]].status_orto = "Sucesso"
      /\ requisicoes[registro_id[r]].id_wl = task[r].uuid
      /\ requisicoes[registro_id[q]].status_orto =
           "Erro: Falha ao baixar resultados"
      /\ requisicoes[registro_id[q]].id_wl = task[q].uuid

\* C24: the payload of every error webhook has no url_ortomosaico, also the
\* one sent after the mosaic was published and the commit failed, whatever
\* urls the table holds for the project; the payload of a success webhook
\* has one, not empty, and it is the url enviar_ortomosaico_para_bucket
\* returned to the run.
C24_UrlSoNoSucesso ==
    \A r \in Runs :
      LET t == chamadas[r] IN
      /\ \A i \in Posicoes(r, EhWebhookErro) : t[i].url = None
      /\ \A i \in Posicoes(r, EhWebhookSucesso) :
           /\ ~Vazio(t[i].url)
           /\ t[i].url = url_ortomosaico[r]
           /\ t[i].url = UrlPublica(id_projeto[r])
      /\ \A i \in Posicoes(r, EhWebhook) :
           t[i].url # None => EhWebhookSucesso(t[i])

\* the mosaic is in the bucket, the commit failed, the error webhook went
\* out while the table holds a url for the same project
C24_Witness ==
    \E r \in Runs :
      /\ causa[r] = "commit"
      /\ pc[r] = "fim"
      /\ bucket[id_projeto[r]].ortomosaico
      /\ url_ortomosaico[r] = UrlPublica(id_projeto[r])
      /\ Posicoes(r, EhWebhookErro) # {}
      /\ UrlPublica(id_projeto[r]) \in UrlsDoBanco(id_projeto[r])

\* C25: a run calls enviar_metadados_para_bucket only when gerar_metadados
\* returned a path to it, and only as the call right after an
\* enviar_ortomosaico_para_bucket that published the mosaic and returned
\* its url.
C25_MetadadosSoComCaminho ==
    \A r \in Runs : \A i \in Posicoes(r, EhEnvioMeta) :
      /\ caminho_metadados[r]
      /\ \E j \in Posicoes(r, EhGerarMetadados) : j < i
      /\ i > 1
      /\ EhEnvioOrto(chamadas[r][i - 1])
      /\ url_ortomosaico[r] = UrlPublica(id_projeto[r])
      /\ bucket[id_projeto[r]].ortomosaico
      /\ causa[r] \in {None, "commit"}

C25_Witness ==
    \E r \in Runs : /\ Posicoes(r, EhEnvioMeta) # {}
                    /\ caminho_metadados[r]
                    /\ bucket[id_projeto[r]].metadados
                    /\ pc[r] = "commit"

\* C26: a record holds a url only together with the status "Sucesso".  The
\* url is passed to atualizar_registro_requisicao only by the commit, with
\* that status, and a run whose commit returned True calls no update after
\* it, so no error status is written over a record that holds a url.
C26_UrlSoComSucesso ==
    /\ \A i \in DOMAIN requisicoes :
         ~Vazio(requisicoes[i].url_ortomosaico) =>
           requisicoes[i].status_orto = "Sucesso"
    /\ \A r \in Runs :
         LET t == chamadas[r] IN
         /\ \A i \in Posicoes(r, EhAtualizar) :
              t[i].url # None => EhCommit(t[i])
         /\ \A i \in Posicoes(r, EhCommit) :
              \A j \in Posicoes(r, EhAtualizar) : j <= i

\* the record of a run that has ended: the url and "Sucesso"
C26_Witness ==
    \E r \in Runs :
      /\ pc[r] = "fim"
      /\ registro_id[r] # None
      /\ requisicoes[registro_id[r]].url_ortomosaico =
           UrlPublica(id_projeto[r])
      /\ requisicoes[registro_id[r]].status_orto = "Sucesso"

\* C27: the call of enviar_webhook is the last call of a run but for the
\* cleanup: no update of the table, no upload and no submission follows it,
\* and from the notification on the table, the bucket and the task of the
\* run stay as they are.
C27_NotificacaoTerminal ==
    /\ [](\A r \in Runs : \A i \in Posicoes(r, EhWebhook) :
            /\ Len(chamadas[r]) <= i + 1
            /\ \A j \in DOMAIN chamadas[r] :
                 j > i => EhLimpar(chamadas[r][j]))
    /\ [][\A r \in Runs :
            Posicoes(r, EhWebhook) # {} =>
              /\ registro_id[r] \in DOMAIN requisicoes =>
                   requisicoes'[registro_id[r]] = requisicoes[registro_id[r]]
              /\ bucket' = bucket
              /\ task'[r] = task[r]]_vars

\* the success webhook, then the cleanup, and the record holds "Sucesso"
C27_Witness ==
    \E r \in Runs :
      LET t == chamadas[r] IN
      /\ pc[r] = "fim"
      /\ Len(t) >= 2
      /\ EhWebhookSucesso(t[Len(t) - 1])
      /\ EhLimpar(t[Len(t)])
      /\ requisicoes[registro_id[r]].status_orto = "Sucesso"

\* the run is past baixar_imagens_projeto and the listing took place
C28_Baixou(r) == Posicoes(r, EhEstagio) # {} /\ causa[r] # "excecao"

\* C28: a run calls processar_imagens_webodm exactly when at least one of
\* the images listed was downloaded: with some downloads failed and one
\* done it goes on, with all of them failed it aborts as "no images"; and
\* the count it keeps (and writes to the metadata) is the number of images
\* downloaded, which may be less than the number listed.
C28_ProssegueSseBaixou ==
    \A r \in Runs :
      /\ Posicoes(r, EhSubmissao) # {} => num_imagens[r] >= 1
      /\ (C28_Baixou(r) /\ num_imagens[r] >= 1) =>
           /\ causa[r] # "sem_imagens"
           /\ pc[r] = "webodm_opcoes" \/ Posicoes(r, EhSubmissao) # {}
      /\ (C28_Baixou(r) /\ num_imagens[r] = 0) =>
           /\ causa[r] = "sem_imagens"
           /\ Posicoes(r, EhSubmissao) = {}
      /\ pc[r] = "webodm_opcoes" =>
           /\ 1 <= num_imagens[r]
           /\ num_imagens[r] <= listadas[r]
           /\ num_imagens[r] <= temp[id_projeto[r]].imagens
      /\ (listadas[r] >= 1 /\ num_imagens[r] = 0) =>
           causa[r] = "sem_imagens"
      /\ caminho_metadados[r] =>
           metadados[r].num_imagens = num_imagens[r]

\* two images listed, one downloaded, and the run is about to submit
C28_Witness ==
    \E r \in Runs : /\ pc[r] = "webodm_opcoes"
                    /\ listadas[r] = 2
                    /\ num_imagens[r] = 1
                    /\ causa[r] = None

\* the request r has arrived without the configured key or without
\* id_projeto in its body
C29_Invalido(r) ==
    /\ resposta[r] # None
    /\ pedido[r].api_key # API_KEY \/ pedido[r].dados # "com_id"

\* C29: a request without the configured API key, or without id_projeto,
\* is answered 401 or 400; no record is created for it and no run is
\* started: the table holds at most one record per request that had both.
C29_PedidoInvalidoNaoInicia ==
    /\ \A r \in Runs :
         C29_Invalido(r) =>
           /\ resposta[r] \in {"400", "401"}
           /\ pedido[r].api_key # API_KEY => resposta[r] = "401"
           /\ IdRegistro(r) \notin DOMAIN requisicoes
           /\ registro_id[r] = None
           /\ pc[r] = "recusada"
           /\ chamadas[r] = << >>
           /\ retorno[r] = None
    /\ Cardinality(DOMAIN requisicoes) <=
         Cardinality({r \in Runs : resposta[r] # None /\ ~C29_Invalido(r)})

\* a request with another key was refused, the next one was accepted and
\* its run has ended: the table holds the record of the second alone
C29_Witness ==
    \E r, q \in Runs :
      /\ pedido[r].api_key = "outra"
      /\ pedido[r].dados = "com_id"
      /\ resposta[r] = "401"
      /\ resposta[q] = "202"
      /\ pc[q] = "fim"
      /\ DOMAIN requisicoes = {registro_id[q]}

\* C30: in a run that wrote the metadata and published the mosaic, the
\* object published is <id_projeto>/<the file name the metadata records>.
C30_MesmoNomeDeArquivo ==
    \A r \in Runs :
      (caminho_metadados[r] /\ url_ortomosaico[r] # None) =>
        url_ortomosaico[r] =
          "Ortomosaicos/" \o id_projeto[r] \o "/" \o metadados[r].arquivo

\* C31: in a run that created its task and wrote the metadata, the preset
\* name in the metadata is the name of a preset of ODM_QUALITY_PRESETS, and
\* the parameters of that preset are the ones the task was created with,
\* whatever the value of ACTIVE_PRESET.
C31_PresetDosMetadados ==
    \A r \in Runs :
      (caminho_metadados[r] /\ task[r].uuid # None) =>
        /\ metadados[r].preset_nome \in DOMAIN ODM_QUALITY_PRESETS
        /\ ODM_QUALITY_PRESETS[metadados[r].preset_nome] = task[r].parametros

====
